---------------------------- MODULE Spec2Model ----------------------------
(***************************************************************************)
(* Keystroke-dynamics authentication (keystroke_auth.py): the feature      *)
(* extractor, the profile aggregator, the matcher, the JSON profile store  *)
(* and the enrollment / verification orchestrators.                        *)
(*                                                                         *)
(* Numbers.  A Python float is modelled as an exact rational <<n, d>> in   *)
(* lowest terms with d > 0; float('inf') is <<1, 0>>.  statistics.mean     *)
(* sums its data exactly (as fractions) and divides once, which is what    *)
(* mean does here.  Time stamps are whole clock ticks, TicksPerSecond of   *)
(* them to the second.                                                     *)
(*                                                                         *)
(* Values.  "None or a list of floats" is a record with a ty field:        *)
(* None is [ty |-> "NoneType"], a list is [ty |-> "list", items |-> s].    *)
(***************************************************************************)
EXTENDS Integers, Sequences, FiniteSets, TLC

VARIABLES
    file,       \* contents of profiles.json (PROFILE_FILE)
    pc,         \* what the process is doing: "idle", "register", "test", ...
    name,       \* the name argument of the running orchestrator
    threshold,  \* the threshold argument of interactive_test
    samples,    \* interactive_register's local list of feature vectors
    captures,   \* captures performed by the running orchestrator
    saves,      \* save_profile calls made by the running orchestrator
    ret,        \* how the last orchestrator run ended
    printed,    \* the message lines the last run printed, in order
    stored,     \* interactive_test's local: what load_profile returned
    features,   \* the orchestrator's local: what extract_features returned
    score,      \* the score computed by the last interactive_test
    override,   \* whether the caller of interactive_test passed a threshold
    file0,      \* contents of profiles.json when the running run began
    written,    \* per name, the value of the last save_profile call that
                \* returned (Missing: none yet)
    g_press_times,    \* module global press_times: the time of every key
                      \* press recorded (g_ sets it apart from the parameter
                      \* of extract_features)
    g_release_times,  \* module global release_times: the time of every key
                      \* release recorded
    pressed_sequence, \* module global: the key of every key press recorded
    recording,        \* module global: whether the listener records
    now,        \* the clock, in ticks: time.time() is Tick(now)
    down,       \* the keys the user holds down
    strokes,    \* every key press so far, in order: its key, the tick of the
                \* press and the tick of its release (-1 while held)
    call,       \* the function that runs or ran last, with its arguments
                \* when a single function is called
    result      \* what a single function returned

\* the state of the pynput capture
capVars == <<g_press_times, g_release_times, pressed_sequence, recording, now,
             down, strokes>>

vars == <<file, pc, name, threshold, samples, captures, saves, ret, printed,
          stored, features, score, override, file0, written, call, result,
          capVars>>

-----------------------------------------------------------------------------
(* Bounds of the model *)

\* the time stamps handed to a single function are ticks 0..MaxTime
MaxTime == 1
\* a capture delivers at most k + MaxExtra time stamps per sequence
MaxExtra == 1
\* clock resolution: ticks per second
TicksPerSecond == 10
\* the typists of the orchestrator runs type at tempo 1..MaxTempo
MaxTempo == 2
\* feature vectors handed to a single function have at most MaxLen entries
MaxLen == 2

-----------------------------------------------------------------------------
(* Floats as exact rationals *)

Abs(x) == IF x < 0 THEN -x ELSE x

RECURSIVE GCD(_, _)
GCD(a, b) == IF b = 0 THEN a ELSE GCD(b, a % b)

\* the float n/d (d # 0), in lowest terms
Rat(n, d) ==
    LET g == GCD(Abs(n), Abs(d))
        s == IF d < 0 THEN -1 ELSE 1
    IN  <<(s * n) \div g, (s * d) \div g>>

\* float('inf')
Inf == <<1, 0>>

\* the time stamp of tick t, in seconds
Tick(t) == Rat(t, TicksPerSecond)

\* a - b
FSub(a, b) == Rat(a[1] * b[2] - b[1] * a[2], a[2] * b[2])

\* a + b
FAdd(a, b) == Rat(a[1] * b[2] + b[1] * a[2], a[2] * b[2])

\* abs(a)
FAbs(a) == <<Abs(a[1]), a[2]>>

\* a <= b, also for inf: x <= inf for every x, inf <= x only for x = inf
FLe(a, b) == a[1] * b[2] <= b[1] * a[2]

RECURSIVE FSum(_)
FSum(xs) == IF xs = <<>> THEN <<0, 1>> ELSE FAdd(xs[1], FSum(Tail(xs)))

\* statistics.mean raises StatisticsError on no data; the marker stands for it
StatisticsError == <<-1, 0>>

\* no score was computed
NoScore == <<0, 0>>

\* statistics.mean(xs): the exact sum divided by the number of data
mean(xs) ==
    IF xs = <<>> THEN StatisticsError
    ELSE LET s == FSum(xs) IN Rat(s[1], s[2] * Len(xs))

-----------------------------------------------------------------------------
(* Python values: None, and lists of floats *)

None == [ty |-> "NoneType", items |-> <<>>]

List(s) == [ty |-> "list", items |-> s]

len(v) == Len(v.items)

\* PASSWORD = "secret", as the sequence of its characters
PASSWORD == <<"s", "e", "c", "r", "e", "t">>

-----------------------------------------------------------------------------
(* Feature extractor, aggregator, matcher *)

\* a slip of extract_features: the flight taken from the previous release
extract_features_gap(typed, press_times, release_times) ==
    IF typed # PASSWORD THEN None
    ELSE LET n == Len(PASSWORD) IN
         IF Len(press_times) < n \/ Len(release_times) < n THEN None
         ELSE LET dwell  == [i \in 1..n |->
                                FSub(release_times[i], press_times[i])]
                  flight == [i \in 1..(n - 1) |->
                                FSub(press_times[i + 1], release_times[i])]
              IN  List(dwell \o flight)

\* a slip of extract_features: the lengths are not checked, the dwells are
\* taken for the time stamps there are
extract_features_unchecked(typed, press_times, release_times) ==
    IF typed # PASSWORD THEN None
    ELSE LET n == Len(PASSWORD)
             m == IF Len(release_times) < n THEN Len(release_times) ELSE n
             dwell  == [i \in 1..m |->
                           FSub(release_times[i], press_times[i])]
             flight == [i \in 1..(n - 1) |->
                           FSub(press_times[i + 1], press_times[i])]
         IN  List(dwell \o flight)

\* extract_features(typed, press_times, release_times)
extract_features(typed, press_times, release_times) ==
    IF typed # PASSWORD THEN None
    ELSE LET n == Len(PASSWORD) IN
         IF Len(press_times) < n \/ Len(release_times) < n THEN None
         ELSE LET dwell  == [i \in 1..n |->
                                FSub(release_times[i], press_times[i])]
                  flight == [i \in 1..(n - 1) |->
                                FSub(press_times[i + 1], press_times[i])]
              IN  List(dwell \o flight)

\* a slip of compare_features: the differences are not made absolute
compare_features_signed(f1, f2) ==
    IF f1 = None \/ f2 = None \/ len(f1) # len(f2) THEN Inf
    ELSE LET diffs == [i \in 1..len(f1) |-> FSub(f1.items[i], f2.items[i])]
         IN  mean(diffs)

\* compare_features(f1, f2)
compare_features(f1, f2) ==
    IF f1 = None \/ f2 = None \/ len(f1) # len(f2) THEN Inf
    ELSE LET diffs == [i \in 1..len(f1) |->
                          FAbs(FSub(f1.items[i], f2.items[i]))]
         IN  mean(diffs)

\* the least of the lengths of the lists ss
MinLen(ss) ==
    CHOOSE m \in { len(ss[j]) : j \in 1..Len(ss) } :
        \A j \in 1..Len(ss) : m <= len(ss[j])

\* a slip of average_samples: the columns are summed, not averaged
average_samples_sum(ss) ==
    IF ss = <<>> THEN None
    ELSE LET length == len(ss[1]) IN
         IF \E j \in 1..Len(ss) : len(ss[j]) # length THEN None
         ELSE List([c \in 1..length |->
                       FSum([j \in 1..Len(ss) |-> ss[j].items[c]])])

\* a slip of average_samples: the check of the lengths is missing, and
\* zip(*samples) stops at the shortest list
average_samples_zip(ss) ==
    IF ss = <<>> THEN None
    ELSE List([c \in 1..MinLen(ss) |->
                  mean([j \in 1..Len(ss) |-> ss[j].items[c]])])

\* average_samples(samples): samples is a sequence of lists
average_samples(ss) ==
    IF ss = <<>> THEN None
    ELSE LET length == len(ss[1]) IN
         IF \E j \in 1..Len(ss) : len(ss[j]) # length THEN None
         ELSE List([c \in 1..length |->
                       mean([j \in 1..Len(ss) |-> ss[j].items[c]])])

-----------------------------------------------------------------------------
(* The profile store: profiles.json, json.load and json.dump *)

\* the profile names of the model
NAMES == {"alice", "bob"}

\* a dict of the program maps every name of NAMES to None, to a list, or to
\* Missing: the key is not in the dict
Missing == [ty |-> "missing", items |-> <<>>]

\* data = {}
EmptyDict == [ty |-> "dict", d |-> [n \in NAMES |-> Missing]]

\* a Python value that json.load returns for a document that is no object
NotADict(t) == [ty |-> t, d |-> [n \in NAMES |-> Missing]]

\* JSON text: null, an array of numbers, and an absent member of an object
JNull == [j |-> "null", items |-> <<>>]
JArray(s) == [j |-> "array", items |-> s]
JMissing == [j |-> "missing", items |-> <<>>]

\* profiles.json does not exist
FileAbsent == [kind |-> "absent", top |-> "", members |-> [n \in NAMES |-> JMissing]]

\* profiles.json holds text that is not JSON (empty, truncated, garbage)
FileGarbage == [kind |-> "garbage", top |-> "", members |-> [n \in NAMES |-> JMissing]]

\* profiles.json holds a JSON document that is not an object: [] or null
FileNotObject(t) == [kind |-> "json", top |-> t, members |-> [n \in NAMES |-> JMissing]]

\* profiles.json holds the JSON object with the members m
FileObject(m) == [kind |-> "json", top |-> "object", members |-> m]

\* json.dump of one value of a dict: None is written null, a list an array
\* (a float is written by repr, which float() reads back exactly)
json_dump_value(v) ==
    IF v = Missing THEN JMissing
    ELSE IF v = None THEN JNull
    ELSE JArray(v.items)

\* json.load of one member of an object
json_load_value(m) ==
    IF m = JMissing THEN Missing
    ELSE IF m = JNull THEN None
    ELSE List(m.items)

\* json.dump(data, f) for a dict, into the file just opened with "w"
json_dump(data) == FileObject([n \in NAMES |-> json_dump_value(data.d[n])])

\* json.load(f) of an existing file: raises on text that is not JSON
json_load(f) ==
    IF f.kind = "garbage" THEN [raised |-> TRUE, value |-> EmptyDict]
    ELSE IF f.top = "object"
         THEN [raised |-> FALSE,
               value  |-> [ty |-> "dict",
                           d  |-> [n \in NAMES |-> json_load_value(f.members[n])]]]
    ELSE IF f.top = "array" THEN [raised |-> FALSE, value |-> NotADict("list")]
    ELSE [raised |-> FALSE, value |-> NotADict("NoneType")]

\* a slip of load_profile: .get(name, []) for a name the store lacks
load_profile_default(f, nm) ==
    IF f.kind = "absent" THEN None
    ELSE LET r == json_load(f) IN
         IF r.raised THEN None
         ELSE IF r.value.ty # "dict" THEN None
         ELSE IF r.value.d[nm] = Missing THEN List(<<>>)
         ELSE r.value.d[nm]

\* load_profile(name): what it returns with profiles.json holding f
load_profile(f, nm) ==
    IF f.kind = "absent" THEN None
    ELSE LET r == json_load(f) IN
         IF r.raised THEN None
         \* .get on a value that is no dict raises, inside the try
         ELSE IF r.value.ty # "dict" THEN None
         ELSE IF r.value.d[nm] = Missing THEN None
         ELSE r.value.d[nm]

\* a slip of save_profile: data.setdefault(name, features), which keeps the
\* value the store already holds for the name
save_profile_setdefault(f, nm, feats) ==
    LET data == IF f.kind = "absent" THEN EmptyDict
                ELSE LET r == json_load(f) IN
                     IF r.raised THEN EmptyDict ELSE r.value
    IN  IF data.ty # "dict" THEN [file |-> f, exc |-> "TypeError"]
        ELSE IF data.d[nm] # Missing THEN [file |-> json_dump(data), exc |-> ""]
        ELSE [file |-> json_dump([data EXCEPT !.d[nm] = feats]),
              exc  |-> ""]

\* a slip of save_profile: the file is not read, the store written holds the
\* one entry
save_profile_fresh(f, nm, feats) ==
    [file |-> json_dump([EmptyDict EXCEPT !.d[nm] = feats]), exc |-> ""]

\* save_profile(name, feats) with profiles.json holding f: the file
\* afterwards, and the exception that escapes ("" when it returns)
save_profile(f, nm, feats) ==
    LET data == IF f.kind = "absent" THEN EmptyDict
                ELSE LET r == json_load(f) IN
                     IF r.raised THEN EmptyDict ELSE r.value
    IN  \* data[name] = features raises on a list, None, ...: no write
        IF data.ty # "dict" THEN [file |-> f, exc |-> "TypeError"]
        ELSE [file |-> json_dump([data EXCEPT !.d[nm] = feats]),
              exc  |-> ""]

-----------------------------------------------------------------------------
(* Captures: what record_keystrokes_pynput / record_keystrokes_fallback     *)
(* hand to the orchestrators                                                *)

\* the password with its last character mistyped
Mistyped == [PASSWORD EXCEPT ![Len(PASSWORD)] = "x"]

\* a typist of tempo g presses key i at tick g*i + i \div 2 and holds it for
\* g + i % 2 ticks; the capture holds np press and nr release time stamps
TypistCapture(g, typed, np, nr) ==
    [typed         |-> typed,
     press_times   |-> [i \in 1..np |-> Tick(g * i + (i \div 2))],
     release_times |-> [i \in 1..nr |-> Tick(g * i + (i \div 2) + g + (i % 2))]]

\* the feature vector of a well-typed capture of tempo g
TypistFeatures(g) ==
    LET c == TypistCapture(g, PASSWORD, Len(PASSWORD), Len(PASSWORD))
    IN  extract_features(c.typed, c.press_times, c.release_times)

\* the captures of the orchestrator runs: well typed or mistyped, with all
\* the time stamps (and those of further keys) or with a release missing
CAPTURES ==
    { TypistCapture(g, t, Len(PASSWORD) + MaxExtra, nr) :
        g \in 1..MaxTempo, t \in {PASSWORD, Mistyped},
        nr \in {Len(PASSWORD) - 1, Len(PASSWORD) + MaxExtra} }

\* threshold=0.10
DefaultThreshold == Rat(1, 10)

\* the thresholds a caller of interactive_test passes
THRESHOLDS == {Rat(0, 1), Rat(1, 10), Rat(1, 5), Inf}

\* for i in range(3)
NUM_SAMPLES == 3

\* a slip of access_granted: score < threshold
access_granted_strict(sc, th) == FLe(sc, th) /\ sc # th

\* if score <= threshold: Access Granted, else: Access Denied
access_granted(sc, th) == FLe(sc, th)

\* the contents of profiles.json when the program starts
INITIAL_FILES ==
    { FileAbsent, FileGarbage, FileNotObject("array"), FileNotObject("null"),
      FileObject([n \in NAMES |-> JMissing]),
      FileObject([n \in NAMES |-> IF n = "alice" THEN JArray(<<Tick(1)>>)
                                  ELSE JMissing]),
      FileObject([n \in NAMES |-> IF n = "alice" THEN JNull
                                  ELSE json_dump_value(TypistFeatures(1))]) }

\* the capture globals as the module sets them when it is loaded, with no
\* key held
NoCapture ==
    /\ g_press_times = <<>>
    /\ g_release_times = <<>>
    /\ pressed_sequence = <<>>
    /\ recording = FALSE
    /\ now = 0
    /\ down = {}
    /\ strokes = <<>>

-----------------------------------------------------------------------------
(* The orchestrators *)

Init ==
    /\ file \in INITIAL_FILES
    /\ pc = "idle"
    /\ name = ""
    /\ threshold = DefaultThreshold
    /\ samples = <<>>
    /\ captures = 0
    /\ saves = 0
    /\ ret = "not called"
    /\ printed = <<>>
    /\ stored = None
    /\ features = None
    /\ score = NoScore
    /\ override = FALSE
    /\ file0 = file
    /\ written = [n \in NAMES |-> Missing]
    /\ call = [fn |-> "none"]
    /\ result = None
    /\ NoCapture

\* interactive_register(name), up to its first capture
RegisterStart(nm) ==
    /\ pc = "idle"
    /\ pc' = "register"
    /\ name' = nm
    /\ samples' = <<>>
    /\ captures' = 0
    /\ saves' = 0
    /\ ret' = "running"
    /\ printed' = <<"Registering profile">>
    /\ stored' = None
    /\ features' = None
    /\ score' = NoScore
    /\ override' = FALSE
    /\ file0' = file
    /\ call' = [fn |-> "interactive_register"]
    /\ UNCHANGED <<file, threshold, written, result>>
    /\ UNCHANGED capVars

\* a slip of interactive_register: the samples captured so far are averaged
\* and saved before the run returns False
RegisterCapture_partial(c) ==
    /\ pc = "register"
    /\ captures' = captures + 1
    /\ features' = extract_features(c.typed, c.press_times, c.release_times)
    /\ IF features' = None
       THEN /\ printed' = printed \o
                   <<"Typed text did not match password. Aborting registration.">>
            /\ file' = save_profile(file, name, average_samples(samples)).file
            /\ saves' = saves + 1
            /\ ret' = "False"
            /\ pc' = "idle"
            /\ UNCHANGED samples
       ELSE /\ samples' = Append(samples, features')
            /\ IF Len(samples') < NUM_SAMPLES
               THEN /\ printed' = printed \o <<"Captured sample">>
                    /\ UNCHANGED <<file, saves, ret, pc>>
               ELSE LET sv == save_profile(file, name, average_samples(samples'))
                    IN  /\ saves' = saves + 1
                        /\ file' = sv.file
                        /\ pc' = "idle"
                        /\ printed' = printed \o <<"Captured sample">>
                        /\ ret' = IF sv.exc = "" THEN "True" ELSE sv.exc
    /\ UNCHANGED <<name, threshold, stored, score, override, file0, written, call, result>>
    /\ UNCHANGED capVars

\* a slip of interactive_register: break instead of return False, so that the
\* samples captured so far are averaged and saved
RegisterCapture_break(c) ==
    /\ pc = "register"
    /\ captures' = captures + 1
    /\ features' = extract_features(c.typed, c.press_times, c.release_times)
    /\ samples' = IF features' = None THEN samples ELSE Append(samples, features')
    /\ IF features' # None /\ Len(samples') < NUM_SAMPLES
       THEN /\ printed' = printed \o <<"Captured sample">>
            /\ UNCHANGED <<file, saves, ret, pc>>
       ELSE LET sv == save_profile(file, name, average_samples(samples'))
            IN  /\ saves' = saves + 1
                /\ file' = sv.file
                /\ pc' = "idle"
                /\ printed' = printed \o <<"Saved averaged profile for">>
                /\ ret' = IF sv.exc = "" THEN "True" ELSE sv.exc
    /\ UNCHANGED <<name, threshold, stored, score, override, file0, written, call, result>>
    /\ UNCHANGED capVars

\* one turn of interactive_register's loop on the capture c, and what follows
\* the loop when the turn was the last
RegisterCapture(c) ==
    /\ pc = "register"
    /\ captures' = captures + 1
    /\ features' = extract_features(c.typed, c.press_times, c.release_times)
    /\ IF features' = None
       THEN /\ printed' = printed \o
                   <<"Typed text did not match password. Aborting registration.">>
            /\ ret' = "False"
            /\ pc' = "idle"
            /\ UNCHANGED <<file, samples, saves>>
       ELSE /\ samples' = Append(samples, features')
            /\ IF Len(samples') < NUM_SAMPLES
               THEN /\ printed' = printed \o <<"Captured sample">>
                    /\ UNCHANGED <<file, saves, ret, pc>>
               ELSE LET avg == average_samples(samples')
                        sv  == save_profile(file, name, avg)
                    IN  /\ saves' = saves + 1
                        /\ file' = sv.file
                        /\ pc' = "idle"
                        /\ IF sv.exc = ""
                           THEN /\ printed' = printed \o
                                      <<"Captured sample", "Saved averaged profile for">>
                                /\ ret' = "True"
                           ELSE /\ printed' = printed \o <<"Captured sample">>
                                /\ ret' = sv.exc
    /\ UNCHANGED <<name, threshold, stored, score, override, file0, written, call, result>>
    /\ UNCHANGED capVars

\* a slip of interactive_test: the check of stored is missing, the capture
\* comes whatever load_profile returned
TestStart_nocheck(nm, given, th) ==
    /\ pc = "idle"
    /\ name' = nm
    /\ override' = given
    /\ threshold' = IF given THEN th ELSE DefaultThreshold
    /\ samples' = <<>>
    /\ captures' = 0
    /\ saves' = 0
    /\ features' = None
    /\ score' = NoScore
    /\ file0' = file
    /\ stored' = load_profile(file, nm)
    /\ printed' = <<>>
    /\ ret' = "running"
    /\ pc' = "test"
    /\ call' = [fn |-> "interactive_test"]
    /\ UNCHANGED <<file, written, result>>
    /\ UNCHANGED capVars

\* interactive_test(name) or interactive_test(name, th), up to its capture
TestStart(nm, given, th) ==
    /\ pc = "idle"
    /\ name' = nm
    /\ override' = given
    /\ threshold' = IF given THEN th ELSE DefaultThreshold
    /\ samples' = <<>>
    /\ captures' = 0
    /\ saves' = 0
    /\ features' = None
    /\ score' = NoScore
    /\ file0' = file
    /\ stored' = load_profile(file, nm)
    /\ IF stored' = None
       THEN /\ printed' = <<"Profile not found.">>
            /\ ret' = "None"
            /\ pc' = "idle"
       ELSE /\ printed' = <<>>
            /\ ret' = "running"
            /\ pc' = "test"
    /\ call' = [fn |-> "interactive_test"]
    /\ UNCHANGED <<file, written, result>>
    /\ UNCHANGED capVars

\* a slip of interactive_test: the line with the score is not printed
TestCapture_quiet(c) ==
    /\ pc = "test"
    /\ captures' = captures + 1
    /\ features' = extract_features(c.typed, c.press_times, c.release_times)
    /\ IF features' = None
       THEN /\ printed' = <<"Typed text did not match password. Try again.">>
            /\ score' = NoScore
       ELSE /\ score' = compare_features(stored, features')
            /\ printed' = <<IF access_granted(score', threshold)
                            THEN "Access Granted"
                            ELSE "Access Denied">>
    /\ ret' = "None"
    /\ pc' = "idle"
    /\ UNCHANGED <<file, name, threshold, samples, saves, stored, override,
                   file0, written, call, result>>
    /\ UNCHANGED capVars

\* a slip of interactive_test: an accepted candidate replaces the stored
\* profile (save_profile(name, features) after Access Granted)
TestCapture_adapt(c) ==
    /\ pc = "test"
    /\ captures' = captures + 1
    /\ features' = extract_features(c.typed, c.press_times, c.release_times)
    /\ IF features' = None
       THEN /\ printed' = <<"Typed text did not match password. Try again.">>
            /\ score' = NoScore
            /\ UNCHANGED <<file, saves>>
       ELSE /\ score' = compare_features(stored, features')
            /\ IF access_granted(score', threshold)
               THEN /\ printed' = <<"Mean absolute feature difference",
                                    "Access Granted">>
                    /\ file' = save_profile(file, name, features').file
                    /\ saves' = saves + 1
               ELSE /\ printed' = <<"Mean absolute feature difference",
                                    "Access Denied">>
                    /\ UNCHANGED <<file, saves>>
    /\ ret' = "None"
    /\ pc' = "idle"
    /\ UNCHANGED <<name, threshold, samples, stored, override,
                   file0, written, call, result>>
    /\ UNCHANGED capVars

\* the rest of interactive_test, on the capture c
TestCapture(c) ==
    /\ pc = "test"
    /\ captures' = captures + 1
    /\ features' = extract_features(c.typed, c.press_times, c.release_times)
    /\ IF features' = None
       THEN /\ printed' = <<"Typed text did not match password. Try again.">>
            /\ score' = NoScore
            /\ ret' = "None"
       ELSE /\ score' = compare_features(stored, features')
            /\ IF score' = StatisticsError
               THEN \* mean([]) raised inside compare_features
                    /\ printed' = <<>>
                    /\ ret' = "StatisticsError"
               ELSE /\ printed' = <<"Mean absolute feature difference",
                                    IF access_granted(score', threshold)
                                    THEN "Access Granted"
                                    ELSE "Access Denied">>
                    /\ ret' = "None"
    /\ pc' = "idle"
    /\ UNCHANGED <<file, name, threshold, samples, saves, stored, override,
                   file0, written, call, result>>
    /\ UNCHANGED capVars

Next ==
    \/ \E nm \in NAMES : RegisterStart(nm)
    \/ \E c \in CAPTURES : RegisterCapture(c)
    \/ \E nm \in NAMES : TestStart(nm, FALSE, DefaultThreshold)
    \/ \E nm \in NAMES, th \in THRESHOLDS : TestStart(nm, TRUE, th)
    \/ \E c \in CAPTURES : TestCapture(c)

Spec == Init /\ [][Next]_vars

-----------------------------------------------------------------------------
(* Properties of the orchestrators, checked under Spec *)

\* the store holds no profile for nm, read off the file itself
NoStoredProfile(f, nm) ==
    \/ f.kind # "json"
    \/ f.top # "object"
    \/ f.members[nm] = JMissing
    \/ f.members[nm] = JNull

\* an interactive_register run, running or over
InRegister == call.fn = "interactive_register"

\* an interactive_test run that is over
TestOver == call.fn = "interactive_test" /\ pc = "idle"

\* C1: when a capture of interactive_register yields no feature vector, the
\* run is over at once: it returned False, the failed capture was the last
\* (the i-th, after i-1 good ones, i <= 3), save_profile was not called and
\* profiles.json is what it was when the run began.
C1_AbortStoresNothing ==
    /\ (InRegister /\ captures > 0 /\ features = None) =>
          /\ pc = "idle"
          /\ ret = "False"
          /\ saves = 0
          /\ file = file0
          /\ captures = Len(samples) + 1
          /\ captures <= NUM_SAMPLES
    /\ (InRegister /\ ret = "False") => features = None

\* an enrollment aborted at its second capture, for a name that has a profile
C1_Witness ==
    /\ InRegister /\ ret = "False" /\ captures = 2
    /\ ~NoStoredProfile(file, name)

\* the per-dimension arithmetic mean of the three vectors a, b, c
MeanOf3(a, b, c) ==
    List([i \in 1..Len(a.items) |->
            LET t == FAdd(FAdd(a.items[i], b.items[i]), c.items[i])
            IN  Rat(t[1], 3 * t[2])])

\* C2: an enrollment run whose 3 captures all yield feature vectors makes
\* exactly 3 captures and one save, returns True, and afterwards
\* load_profile(name) is the per-dimension mean of the 3 vectors.
C2_ThreeGoodCapturesStoreTheMean ==
    (InRegister /\ Len(samples) = NUM_SAMPLES) =>
        /\ pc = "idle"
        /\ captures = NUM_SAMPLES
        /\ saves = 1
        /\ ret = "True"
        /\ load_profile(file, name) = MeanOf3(samples[1], samples[2], samples[3])

\* the mean of the absolute differences of a and b, dimension by dimension
L1Mean(a, b) ==
    LET t == FSum([i \in 1..Len(a.items) |->
                     IF FLe(a.items[i], b.items[i])
                     THEN FSub(b.items[i], a.items[i])
                     ELSE FSub(a.items[i], b.items[i])])
    IN  Rat(t[1], t[2] * Len(a.items))

\* C3: a verification that reaches scoring (a stored profile, a feature
\* vector, equal lengths) computes the mean absolute difference as its score,
\* grants access if and only if score <= threshold, the boundary included,
\* and the threshold is 0.10 unless the caller passed one.
C3_ScoreAndDecision ==
    (TestOver /\ stored # None /\ features # None /\ len(stored) = len(features)) =>
        /\ score = L1Mean(stored, features)
        /\ printed[1] = "Mean absolute feature difference"
        /\ (printed[2] = "Access Granted") <=>
              (score[1] * threshold[2] <= threshold[1] * score[2])
        /\ (printed[2] = "Access Denied") <=> (printed[2] # "Access Granted")
        /\ score = threshold => printed[2] = "Access Granted"
        /\ ~override => threshold = <<1, 10>>

\* a verification at the default threshold whose score is exactly 0.10
C3_Witness ==
    /\ TestOver /\ stored # None /\ features # None
    /\ ~override /\ score = <<1, 10>> /\ printed[2] = "Access Granted"

\* C4: a verification for a name without a stored profile returns without
\* granting access, and prints "Profile not found.", which no other rejection
\* (mistyped text, score above the threshold) prints.
C4_UnknownIdentity ==
    /\ (call.fn = "interactive_test" /\ NoStoredProfile(file0, name)) =>
          /\ pc = "idle"
          /\ ret = "None"
          /\ printed = <<"Profile not found.">>
    /\ (call.fn = "interactive_test" /\ ~NoStoredProfile(file0, name)) =>
          \A i \in 1..Len(printed) : printed[i] # "Profile not found."

\* a verification for a name the store lacks, the store holding other names
C4_Witness ==
    /\ TestOver /\ NoStoredProfile(file0, name)
    /\ \E n \in NAMES : ~NoStoredProfile(file0, n)

\* C5 as stated: every verification makes exactly one capture, and a mistyped
\* attempt for a name without a profile is rejected as a format mismatch.
C5_AlwaysOneCapture ==
    TestOver =>
        /\ captures = 1
        /\ features = None =>
              printed = <<"Typed text did not match password. Try again.">>

\* C5 as the code has it: the stored profile is looked up first; a name
\* without one is rejected as unknown with no capture at all; a name with one
\* gets exactly one capture, then the extraction, then the format-mismatch
\* rejection or the score and the decision.
C5_LookupThenOneCapture ==
    /\ call.fn = "interactive_test" => captures <= 1
    /\ (call.fn = "interactive_test" /\ pc = "test") =>
          captures = 0 /\ ~NoStoredProfile(file0, name)
    /\ TestOver =>
          IF NoStoredProfile(file0, name)
          THEN captures = 0 /\ printed = <<"Profile not found.">>
          ELSE /\ captures = 1
               /\ features = None =>
                     /\ printed = <<"Typed text did not match password. Try again.">>
                     /\ score = NoScore
               /\ features # None =>
                     /\ score = compare_features(stored, features)
                     /\ Len(printed) = 2

\* a verification rejected as unknown before any capture
C5_Witness == TestOver /\ NoStoredProfile(file0, name) /\ captures = 0

\* C6: a verification whose stored profile or candidate is absent, or whose
\* lengths differ, does not grant access, whatever the threshold.
C6_IncomparableIsRejected ==
    (TestOver /\ (stored = None \/ features = None \/ len(stored) # len(features))) =>
        \A i \in 1..Len(printed) : printed[i] # "Access Granted"

-----------------------------------------------------------------------------
(* Single functions, each called once on arguments drawn from bounded sets *)

\* the orchestrators' variables while a single function is called
NoRun ==
    /\ name = ""
    /\ threshold = DefaultThreshold
    /\ samples = <<>>
    /\ captures = 0
    /\ saves = 0
    /\ ret = "not called"
    /\ printed = <<>>
    /\ stored = None
    /\ features = None
    /\ score = NoScore
    /\ override = FALSE
    /\ written = [n \in NAMES |-> Missing]
    /\ NoCapture

\* the non-decreasing sequences of n ticks
Rising(n) ==
    { s \in [1..n -> 0..MaxTime] : \A i \in 1..(n - 1) : s[i] <= s[i + 1] }

\* s backwards
Reversed(s) == [i \in 1..Len(s) |-> s[Len(s) + 1 - i]]

\* the tick sequences a capture hands to extract_features: rising ones of
\* k - MaxExtra to k + MaxExtra ticks, and falling ones of k ticks
TICK_SEQS ==
    UNION { Rising(n) :
              n \in (Len(PASSWORD) - MaxExtra)..(Len(PASSWORD) + MaxExtra) }
    \cup { Reversed(s) : s \in Rising(Len(PASSWORD)) }

\* the typed texts: the password, a wrong last character, a character
\* missing, a character too many
TYPED ==
    { PASSWORD, Mistyped, SubSeq(PASSWORD, 1, Len(PASSWORD) - 1),
      PASSWORD \o <<"s">> }

\* the time stamps of the ticks s
Stamps(s) == [i \in 1..Len(s) |-> Tick(s[i])]

InitExtract ==
    /\ NoRun
    /\ file = FileAbsent
    /\ file0 = file
    /\ pc = "call"
    /\ \E t \in TYPED, p \in TICK_SEQS, r \in TICK_SEQS :
          call = [fn |-> "extract_features", typed |-> t, press |-> p, release |-> r]
    /\ result = None

\* features = extract_features(typed, press, rel)
ExtractCall ==
    /\ pc = "call"
    /\ call.fn = "extract_features"
    /\ result' = extract_features(call.typed, Stamps(call.press), Stamps(call.release))
    /\ pc' = "returned"
    /\ UNCHANGED <<file, name, threshold, samples, captures, saves, ret, printed,
                   stored, features, score, override, file0, written, call>>
    /\ UNCHANGED capVars

SpecExtract == InitExtract /\ [][ExtractCall]_vars

\* the feature vectors of at most MaxLen entries
VECTORS ==
    UNION { { List(Stamps(s)) : s \in [1..n -> 0..MaxTime] } : n \in 0..MaxLen }

\* the lists of at most NUM_SAMPLES feature vectors
SAMPLE_LISTS == UNION { [1..n -> VECTORS] : n \in 0..NUM_SAMPLES }

InitAverage ==
    /\ NoRun
    /\ file = FileAbsent
    /\ file0 = file
    /\ pc = "call"
    /\ \E ss \in SAMPLE_LISTS : call = [fn |-> "average_samples", samples |-> ss]
    /\ result = None

\* avg = average_samples(samples)
AverageCall ==
    /\ pc = "call"
    /\ call.fn = "average_samples"
    /\ result' = average_samples(call.samples)
    /\ pc' = "returned"
    /\ UNCHANGED <<file, name, threshold, samples, captures, saves, ret, printed,
                   stored, features, score, override, file0, written, call>>
    /\ UNCHANGED capVars

SpecAverage == InitAverage /\ [][AverageCall]_vars

-----------------------------------------------------------------------------
(* Properties of single functions *)

\* C7: extract_features returns None exactly when the typed text is not the
\* password or a time-stamp sequence has fewer than k entries; otherwise a
\* vector of 2k-1 entries, the k dwells release[i]-press[i] and then the k-1
\* flights press[i]-press[i-1], read from the first k entries alone.
C7_ExtractFeatures ==
    (call.fn = "extract_features" /\ pc = "returned") =>
        LET k == Len(PASSWORD)
            p == call.press
            r == call.release
        IN  /\ (result = None) <=>
                  (call.typed # PASSWORD \/ Len(p) < k \/ Len(r) < k)
            /\ result # None =>
                  /\ len(result) = 2 * k - 1
                  /\ \A i \in 1..k :
                        result.items[i] = Rat(r[i] - p[i], TicksPerSecond)
                  /\ \A i \in 1..(k - 1) :
                        result.items[k + i] = Rat(p[i + 1] - p[i], TicksPerSecond)
                  /\ result = extract_features(call.typed,
                                               Stamps(SubSeq(p, 1, k)),
                                               Stamps(SubSeq(r, 1, k)))

\* a feature vector extracted from sequences longer than the password, with
\* a dwell and a flight that are not zero
C7_Witness ==
    /\ call.fn = "extract_features" /\ pc = "returned" /\ result # None
    /\ Len(call.press) > Len(PASSWORD) /\ Len(call.release) > Len(PASSWORD)
    /\ \E i \in 1..Len(PASSWORD) : result.items[i] # <<0, 1>>
    /\ \E i \in (Len(PASSWORD) + 1)..len(result) : result.items[i] # <<0, 1>>

\* C8: average_samples returns None for no samples and for samples that are
\* not all of one length.
C8_AverageFailsExplicitly ==
    (/\ call.fn = "average_samples" /\ pc = "returned"
     /\ \/ call.samples = <<>>
        \/ \E i, j \in 1..Len(call.samples) :
              len(call.samples[i]) # len(call.samples[j]))
    => result = None

\* samples of different lengths, none of them empty, averaged to None
C8_Witness ==
    /\ call.fn = "average_samples" /\ pc = "returned" /\ result = None
    /\ \E i, j \in 1..Len(call.samples) :
          len(call.samples[i]) # len(call.samples[j])
    /\ \A i \in 1..Len(call.samples) : len(call.samples[i]) > 0

-----------------------------------------------------------------------------
(* The profile store alone: save_profile and load_profile called in any     *)
(* order by one process                                                     *)

\* the values handed to save_profile: None, and the vectors of at most MaxLen
\* entries that are all the same tick
SAVED_VALUES ==
    {None} \cup { List([i \in 1..n |-> Tick(t)]) : n \in 0..MaxLen, t \in 1..MaxTime }

InitStore ==
    /\ NoRun
    /\ file \in INITIAL_FILES
    /\ file0 = file
    /\ pc = "idle"
    /\ call = [fn |-> "none", name |-> "", value |-> None]
    /\ result = None

\* save_profile(nm, v)
SaveCall(nm, v) ==
    /\ pc = "idle"
    /\ LET sv == save_profile(file, nm, v)
       IN  /\ file' = sv.file
           /\ ret' = IF sv.exc = "" THEN "None" ELSE sv.exc
           /\ written' = IF sv.exc = "" THEN [written EXCEPT ![nm] = v]
                         ELSE written
    /\ call' = [fn |-> "save_profile", name |-> nm, value |-> v]
    /\ result' = None
    /\ UNCHANGED <<pc, name, threshold, samples, captures, saves, printed,
                   stored, features, score, override, file0>>
    /\ UNCHANGED capVars

\* load_profile(nm)
LoadCall(nm) ==
    /\ pc = "idle"
    /\ result' = load_profile(file, nm)
    /\ ret' = "None"
    /\ call' = [fn |-> "load_profile", name |-> nm, value |-> None]
    /\ UNCHANGED <<file, pc, name, threshold, samples, captures, saves, printed,
                   stored, features, score, override, file0, written>>
    /\ UNCHANGED capVars

NextStore ==
    \/ \E nm \in NAMES, v \in SAVED_VALUES : SaveCall(nm, v)
    \/ \E nm \in NAMES : LoadCall(nm)

SpecStore == InitStore /\ [][NextStore]_vars

\* profiles.json holds text that is not JSON, or JSON that is no object
Corrupt(f) == f.kind = "garbage" \/ (f.kind = "json" /\ f.top # "object")

\* C9: load_profile(X) returns the value of the last save_profile(X, v) that
\* this process completed, however many saves for X or for other names came
\* before it.
C9_ReadAfterWrite ==
    (call.fn = "load_profile" /\ written[call.name] # Missing) =>
        result = written[call.name]

\* a load that returns the vector saved over a different stored profile
C9_Witness ==
    /\ call.fn = "load_profile"
    /\ result # None
    /\ result = written[call.name]
    /\ ~NoStoredProfile(file0, call.name)
    /\ load_profile(file0, call.name) # result

\* C10: on a corrupt store load_profile returns None for every name, and
\* save_profile(X, v) returns normally, after which load_profile(X) is v.
C10_CorruptStoreIsEmpty ==
    /\ (call.fn = "load_profile" /\ Corrupt(file)) => result = None
    /\ call.fn = "save_profile" =>
          /\ ret = "None"
          /\ load_profile(file, call.name) = call.value

-----------------------------------------------------------------------------
(* Further properties of the orchestrators, under Spec *)

\* C11 as stated: after an enrollment run for X that aborted,
\* load_profile(X) returns None.
C11_AbortLeavesNoProfile ==
    (InRegister /\ ret = "False") => load_profile(file, name) = None

\* C11 as the code has it: an aborted enrollment for X stores nothing under
\* X, so load_profile(X) returns what it returned before the run: None when
\* X had no profile, and the earlier profile when X had one.
C11_AbortKeepsEarlierProfile ==
    (InRegister /\ ret = "False") =>
        /\ load_profile(file, name) = load_profile(file0, name)
        /\ NoStoredProfile(file0, name) => load_profile(file, name) = None
        /\ ~NoStoredProfile(file0, name) => load_profile(file, name) # None

\* an enrollment for a name without a profile, aborted at sample 2 of 3
C11_Witness ==
    /\ InRegister /\ ret = "False"
    /\ Len(samples) = 1 /\ captures = 2
    /\ NoStoredProfile(file0, name)
    /\ load_profile(file, name) = None

\* the last verification printed the line with the score
ScorePrinted ==
    \E i \in 1..Len(printed) : printed[i] = "Mean absolute feature difference"

\* the last verification printed a decision
DecisionPrinted ==
    \E i \in 1..Len(printed) :
        printed[i] = "Access Granted" \/ printed[i] = "Access Denied"

\* C12 as stated: every verification reports a score with its decision, the
\* format-mismatch and unknown-identity rejections included.
C12_AlwaysAScore == TestOver => (ScorePrinted /\ score # NoScore)

\* C12 as the code has it: a verification that reaches scoring (a stored
\* profile and a feature vector) prints the score and then the decision; the
\* unknown-identity and format-mismatch rejections print their reason alone,
\* with no score and no decision line.
C12_ScoreWithEveryDecision ==
    TestOver =>
        /\ ScorePrinted <=> (stored # None /\ features # None)
        /\ ScorePrinted <=> DecisionPrinted
        /\ ScorePrinted <=> (score # NoScore)
        /\ ScorePrinted =>
              /\ Len(printed) = 2
              /\ printed[1] = "Mean absolute feature difference"
        /\ ~ScorePrinted => Len(printed) = 1

\* a format-mismatch rejection, reported without a score
C12_Witness ==
    /\ TestOver /\ stored # None /\ features = None
    /\ score = NoScore /\ ~ScorePrinted

-----------------------------------------------------------------------------
(* compare_features alone, called once on any two of the vectors or None *)

InitCompare ==
    /\ NoRun
    /\ file = FileAbsent
    /\ file0 = file
    /\ pc = "call"
    /\ \E a \in VECTORS \cup {None}, b \in VECTORS \cup {None} :
          call = [fn |-> "compare_features", f1 |-> a, f2 |-> b]
    /\ result = NoScore

\* score = compare_features(f1, f2)
CompareCall ==
    /\ pc = "call"
    /\ call.fn = "compare_features"
    /\ result' = compare_features(call.f1, call.f2)
    /\ pc' = "returned"
    /\ UNCHANGED <<file, name, threshold, samples, captures, saves, ret, printed,
                   stored, features, score, override, file0, written, call>>
    /\ UNCHANGED capVars

SpecCompare == InitCompare /\ [][CompareCall]_vars

\* C13: for vectors a, b of equal length compare_features(a, b) is what
\* compare_features(b, a) is (for two empty vectors both raise
\* StatisticsError); for non-empty vectors it is a finite number >= 0, and it
\* is 0 when a = b.
C13_SymmetricZeroSelfDistance ==
    (/\ call.fn = "compare_features" /\ pc = "returned"
     /\ call.f1 # None /\ call.f2 # None /\ len(call.f1) = len(call.f2))
    => /\ result = compare_features(call.f2, call.f1)
       /\ len(call.f1) > 0 => (result[2] > 0 /\ result[1] >= 0)
       /\ (len(call.f1) > 0 /\ call.f1 = call.f2) => result = <<0, 1>>
       /\ (len(call.f1) = 0) => result = StatisticsError

\* two different vectors of two entries, at a distance that is not zero
C13_Witness ==
    /\ call.fn = "compare_features" /\ pc = "returned"
    /\ call.f1 # None /\ call.f2 # None
    /\ len(call.f1) = 2 /\ len(call.f2) = 2
    /\ call.f1 # call.f2
    /\ result # <<0, 1>> /\ result = compare_features(call.f2, call.f1)

\* C14: average_samples of N >= 1 copies of one vector v returns v.
C14_AverageOfCopies ==
    (/\ call.fn = "average_samples" /\ pc = "returned"
     /\ Len(call.samples) >= 1
     /\ \A j \in 1..Len(call.samples) : call.samples[j] = call.samples[1])
    => result = call.samples[1]

\* three copies of a vector with an entry that is not zero
C14_Witness ==
    /\ call.fn = "average_samples" /\ pc = "returned"
    /\ Len(call.samples) = NUM_SAMPLES
    /\ \A j \in 1..Len(call.samples) : call.samples[j] = call.samples[1]
    /\ \E c \in 1..len(call.samples[1]) : call.samples[1].items[c] # <<0, 1>>
    /\ result = call.samples[1]

-----------------------------------------------------------------------------
(* Frame properties *)

\* C15: profiles.json changes only in the step that ends a successful
\* enrollment, and then load_profile changes for the enrolled name alone:
\* every step of a verification and every aborted enrollment leaves the
\* whole file as it is.
C15_OnlyEnrollmentChangesStore ==
    [][ /\ file' # file =>
              /\ pc = "register" /\ pc' = "idle" /\ ret' = "True"
              /\ \A n \in NAMES \ {name} :
                    load_profile(file', n) = load_profile(file, n)
        /\ (pc = "test" \/ call'.fn = "interactive_test") => file' = file
        /\ ret' = "False" => file' = file
        /\ (\E n \in NAMES : load_profile(file', n) # load_profile(file, n)) =>
              (pc = "register" /\ ret' = "True"
               /\ load_profile(file', name) # load_profile(file, name)) ]_vars

\* an accepted verification after a successful enrollment of the same name,
\* the file still what the enrollment wrote
C15_Witness ==
    /\ TestOver /\ DecisionPrinted /\ printed[2] = "Access Granted"
    /\ file = file0
    /\ file \notin INITIAL_FILES

-----------------------------------------------------------------------------
(* One pynput capture, event by event *)

\* a capture sees at most MaxKeys key presses
MaxKeys == 3

\* the keys whose key.char is a one-character string
CHAR_KEYS == {"s", "e"}
\* the keys without a char: on_press records str(key)
SPECIAL_KEYS == {"Key.shift", "Key.backspace", "Key.enter"}
KEYS == CHAR_KEYS \cup SPECIAL_KEYS

\* "".join(ch for ch in pressed_sequence if len(ch) == 1), without a final
\* end-of-line character
JoinTyped(seq) ==
    LET chars == SelectSeq(seq, LAMBDA ch : ch \notin SPECIAL_KEYS)
    IN  IF chars # <<>> /\ chars[Len(chars)] \in {"\r", "\n"}
        THEN SubSeq(chars, 1, Len(chars) - 1)
        ELSE chars

InitCapture ==
    /\ NoRun
    /\ file = FileAbsent
    /\ file0 = file
    /\ pc = "idle"
    /\ call = [fn |-> "none"]
    /\ result = None

\* record_keystrokes_pynput up to the start of the listener: the globals are
\* emptied, the user answers input() with Enter and recording begins. The
\* Enter that answered input() may still be held when the listener starts.
RecordStart ==
    /\ pc = "idle"
    /\ call.fn = "none"
    /\ call' = [fn |-> "record_keystrokes_pynput"]
    /\ pc' = "listening"
    /\ g_press_times' = <<>>
    /\ g_release_times' = <<>>
    /\ pressed_sequence' = <<>>
    /\ recording' = TRUE
    /\ \E held \in {{}, {"Key.enter"}} : down' = held
    /\ strokes' = <<>>
    /\ UNCHANGED <<file, name, threshold, samples, captures, saves, ret, printed,
                   stored, features, score, override, file0, written, result,
                   now>>

\* the listener delivers the press of key k
on_press(k) ==
    /\ pc = "listening"
    /\ k \notin down
    /\ Len(strokes) < MaxKeys
    /\ now' = now + 1
    /\ down' = down \cup {k}
    /\ strokes' = Append(strokes, [key |-> k, down_at |-> now', up_at |-> -1])
    /\ IF recording
       THEN /\ g_press_times' = Append(g_press_times, Tick(now'))
            /\ pressed_sequence' = Append(pressed_sequence, k)
       ELSE UNCHANGED <<g_press_times, pressed_sequence>>
    /\ UNCHANGED <<file, pc, name, threshold, samples, captures, saves, ret,
                   printed, stored, features, score, override, file0, written,
                   call, result, g_release_times, recording>>

\* the strokes after the held key k is released at tick t
Released(ss, k, t) ==
    LET held == { i \in 1..Len(ss) : ss[i].key = k /\ ss[i].up_at = -1 }
    IN  [i \in 1..Len(ss) |->
            IF i \in held THEN [ss[i] EXCEPT !.up_at = t] ELSE ss[i]]

\* the listener delivers the release of key k; the release of Enter stops the
\* listener and record_keystrokes_pynput returns
on_release(k) ==
    /\ pc = "listening"
    /\ k \in down
    /\ now' = now + 1
    /\ down' = down \ {k}
    /\ strokes' = Released(strokes, k, now')
    /\ IF recording
       THEN g_release_times' = Append(g_release_times, Tick(now'))
       ELSE UNCHANGED g_release_times
    /\ IF recording /\ k = "Key.enter"
       THEN /\ recording' = FALSE
            /\ result' = [typed |-> JoinTyped(pressed_sequence),
                          press_times |-> g_press_times,
                          release_times |-> g_release_times']
            /\ pc' = "returned"
       ELSE UNCHANGED <<recording, result, pc>>
    /\ UNCHANGED <<file, name, threshold, samples, captures, saves, ret,
                   printed, stored, features, score, override, file0, written,
                   call, g_press_times, pressed_sequence>>

NextCapture ==
    \/ RecordStart
    \/ \E k \in KEYS : on_press(k)
    \/ \E k \in KEYS : on_release(k)

SpecCapture == InitCapture /\ [][NextCapture]_vars

\* the strokes of the character keys, in the order of their presses: stroke
\* i is the one that produced typed[i]
CharStrokes == SelectSeq(strokes, LAMBDA s : s.key \in CHAR_KEYS)

\* C16: when record_keystrokes_pynput has returned, for every position i of
\* the typed string press_times[i] is the press time and release_times[i] the
\* release time of the key stroke that produced typed[i].
C16_ParallelSequences ==
    (pc = "returned" /\ call.fn = "record_keystrokes_pynput") =>
        \A i \in 1..Len(result.typed) :
            /\ result.typed[i] = CharStrokes[i].key
            /\ i <= Len(result.press_times)
            /\ result.press_times[i] = Tick(CharStrokes[i].down_at)
            /\ i <= Len(result.release_times)
            /\ result.release_times[i] = Tick(CharStrokes[i].up_at)

\* s is monotonically non-decreasing
NonDecreasing(s) == \A i \in 1..(Len(s) - 1) : s[i] <= s[i + 1]

\* C17: for a typed text equal to the password and press and release times
\* that are each non-decreasing with at least k entries, extract_features
\* returns a vector and every entry of it is >= 0.
C17_NonNegativeFeatures ==
    (/\ call.fn = "extract_features" /\ pc = "returned"
     /\ call.typed = PASSWORD
     /\ Len(call.press) >= Len(PASSWORD) /\ Len(call.release) >= Len(PASSWORD)
     /\ NonDecreasing(call.press) /\ NonDecreasing(call.release))
    => /\ result # None
       /\ \A i \in 1..len(result) : FLe(<<0, 1>>, result.items[i])

-----------------------------------------------------------------------------
(* What enrollment hands to save_profile *)

\* C18: in every run of interactive_register that has called save_profile,
\* the value handed to it is the aggregate of NUM_SAMPLES feature vectors of
\* 2k-1 numbers each and is itself a vector of 2k-1 numbers, never None; when
\* the save returned, that vector is what load_profile(name) returns.
C18_SavedAggregateIsAVector ==
    (InRegister /\ saves >= 1) =>
        LET avg == average_samples(samples)
        IN  /\ saves = 1
            /\ Len(samples) = NUM_SAMPLES
            /\ \A i \in 1..Len(samples) :
                  /\ samples[i] # None
                  /\ len(samples[i]) = 2 * Len(PASSWORD) - 1
            /\ avg # None
            /\ len(avg) = 2 * Len(PASSWORD) - 1
            /\ ret = "True" => load_profile(file, name) = avg

\* an enrollment that saved the aggregate of three samples that are not all
\* the same, over an earlier profile of the name
C18_Witness ==
    /\ InRegister /\ saves = 1 /\ ret = "True"
    /\ \E i, j \in 1..Len(samples) : samples[i] # samples[j]
    /\ load_profile(file0, name) # None
    /\ load_profile(file, name) = average_samples(samples)
    /\ load_profile(file, name) # load_profile(file0, name)

-----------------------------------------------------------------------------
(* The frame of save_profile *)

\* C19: a save_profile(X, v) on a store that is absent or a JSON object
\* leaves load_profile(Y) what it was for every name Y other than X.
C19_SaveChangesOnlyItsEntry ==
    [][ (call'.fn = "save_profile" /\ ~Corrupt(file)) =>
            \A n \in NAMES \ {call'.name} :
                load_profile(file', n) = load_profile(file, n) ]_vars

\* a save that returned and changed the profile of its name, while the other
\* name, never saved, still has the profile it had at the start
C19_Witness ==
    /\ call.fn = "save_profile" /\ ret = "None"
    /\ load_profile(file, call.name) # load_profile(file0, call.name)
    /\ \E n \in NAMES \ {call.name} :
          /\ written[n] = Missing
          /\ load_profile(file, n) # None
          /\ load_profile(file, n) = load_profile(file0, n)

=============================================================================
